---- MODULE Spec2Model ----
(***************************************************************************)
(* A model of the schedule image renderer of schedule-formatter:           *)
(*   src/src/utils/canvasRenderer.ts   calculateFitScale, wrapText,        *)
(*                                     drawImage, renderScheduleToCanvas,  *)
(*                                     formatStartEndDates and its helpers *)
(*   src/src/components/ScheduleImage.tsx   GenerateScheduleImage          *)
(*   src/src/App.tsx, src/unnamed/part_005  the form, the preview list and *)
(*                                          the Share Schedule click       *)
(*                                                                         *)
(* Numbers.  fitScale is kept in hundredths (0.95 is 95), so that the      *)
(* arithmetic of calculateFitScale is exact.                               *)
(* Strings.  A string is a tuple of one-character strings, so that split,  *)
(* trim and the regular expressions of the source are computed character   *)
(* by character.  Null stands for null/undefined.                          *)
(***************************************************************************)
EXTENDS Integers, Sequences, FiniteSets, TLC

VARIABLES
    \* calculateFitScale applied to two entry counts
    fitA, fitB, fitOutA, fitOutB, fitPc,
    \* wrapText applied to a text, a width budget and a measure
    wtText, wtMax, wtFont, wtLines, wtPc,
    \* formatStartEndDates applied to a start and an end string
    fdPattern, fdStartC, fdEndC, fdStart, fdEnd, fdOut, fdPc,
    \* a render: the arguments, the position of renderScheduleToCanvas, the
    \* drawing context, and the position and result of GenerateScheduleImage
    rEventCount, rEvents, rProfile, rShowEnd, rShowDur, rCtxOk,
    rPc, rFitScale, rIdx, rY, rOps, rLoads, rDepth, gPc, gResult,
    \* the image loads that have settled, and the drawing calls that reached
    \* the canvas
    rSettled, rPainted,
    \* the last drawImage that settled: its image, what happened to it and how
    \* its promise settled
    rImage,
    \* the App component: which of its sources, its state, the preview list
    \* it shows, and whether a calendar fetch is in flight
    aSource, aUsername, aWebcal, aError, aLoading, aEvents, aPreview,
    aShareSheetOpen, aPc,
    \* scheduleImageDataUrl, as the events its image was rendered from, <<>>
    \* for the empty string
    aImage,
    \* the dateFormat of the App, the pattern in which the start and the end
    \* of each of its events are formatted, and the dateFormat that a fetch in
    \* flight has taken
    aDateFormat, aPatterns, aFetchFormat,
    \* the custom-schedule dialog: its events, editingEventIndex, the event
    \* loaded into its form and the number of events created so far
    dEvents, dEditing, dLoaded, dCreated

fitVars == <<fitA, fitB, fitOutA, fitOutB, fitPc>>
wtVars  == <<wtText, wtMax, wtFont, wtLines, wtPc>>
fdVars  == <<fdPattern, fdStartC, fdEndC, fdStart, fdEnd, fdOut, fdPc>>
rVars   == <<rEventCount, rEvents, rProfile, rShowEnd, rShowDur, rCtxOk,
             rPc, rFitScale, rIdx, rY, rOps, rLoads, rDepth, gPc, gResult,
             rSettled, rPainted, rImage>>
appVars == <<aSource, aUsername, aWebcal, aError, aLoading, aEvents, aPreview,
             aShareSheetOpen, aPc, aImage>>
fmtVars == <<aDateFormat, aPatterns, aFetchFormat>>
dlgVars == <<dEvents, dEditing, dLoaded, dCreated>>

Null == <<"null">>

Max(a, b) == IF a >= b THEN a ELSE b
Min(a, b) == IF a <= b THEN a ELSE b

(***************************************************************************)
(* calculateFitScale                                                       *)
(***************************************************************************)
MaxEntryCount == 101

FitScaleTop == 95
FitScaleStep == 6
FitScaleFloor == 50

calculateFitScale_NoFloor(eventCount) ==
    FitScaleTop - (eventCount - 1) * FitScaleStep

calculateFitScale_Growing(eventCount) ==
    Max(FitScaleTop + (eventCount - 1) * FitScaleStep, FitScaleFloor)

\* Math.max(0.95 - (eventCount - 1) * 0.06, 0.5), in hundredths
calculateFitScale(eventCount) ==
    Max(FitScaleTop - (eventCount - 1) * FitScaleStep, FitScaleFloor)

FitIdle ==
    /\ fitA = 0 /\ fitB = 0 /\ fitOutA = 0 /\ fitOutB = 0 /\ fitPc = "off"

FitInit ==
    /\ fitA \in 0..MaxEntryCount
    /\ fitB \in 0..MaxEntryCount
    /\ fitA <= fitB
    /\ fitOutA = 0
    /\ fitOutB = 0
    /\ fitPc = "call"

\* the two calls calculateFitScale(a), calculateFitScale(b)
FitCall ==
    /\ fitPc = "call"
    /\ fitOutA' = calculateFitScale(fitA)
    /\ fitOutB' = calculateFitScale(fitB)
    /\ fitPc' = "done"
    /\ UNCHANGED <<fitA, fitB>>

(***************************************************************************)
(* Strings: String.prototype.split(' '), Array.prototype.join(' '),        *)
(* String.prototype.trim                                                   *)
(***************************************************************************)
SP == " "

\* the index of the first space of s at or after i, or Len(s) + 1
RECURSIVE NextSpace(_, _)
NextSpace(s, i) ==
    IF i > Len(s) THEN Len(s) + 1
    ELSE IF s[i] = SP THEN i
    ELSE NextSpace(s, i + 1)

\* s.split(' '): "" gives [""], "a  b" gives ["a", "", "b"]
RECURSIVE Split(_)
Split(s) ==
    LET j == NextSpace(s, 1) IN
    IF j > Len(s) THEN <<s>>
    ELSE <<SubSeq(s, 1, j - 1)>> \o Split(SubSeq(s, j + 1, Len(s)))

\* parts.join(' ')
RECURSIVE Join(_)
Join(parts) ==
    IF Len(parts) = 0 THEN <<>>
    ELSE IF Len(parts) = 1 THEN parts[1]
    ELSE parts[1] \o <<SP>> \o Join(Tail(parts))

RECURSIVE TrimLeft(_)
TrimLeft(s) ==
    IF Len(s) > 0 /\ s[1] = SP THEN TrimLeft(Tail(s)) ELSE s

RECURSIVE TrimRight(_)
TrimRight(s) ==
    IF Len(s) > 0 /\ s[Len(s)] = SP THEN TrimRight(SubSeq(s, 1, Len(s) - 1)) ELSE s

Trim(s) == TrimRight(TrimLeft(s))

(***************************************************************************)
(* wrapText                                                                *)
(***************************************************************************)
MaxTextLen == 5
MaxWidth == 4
MaxFont == 2

\* the characters of the texts wrapped: a narrow glyph, a wide glyph, a space
WrapChars == {"i", "W", SP}

GlyphWidth(c) == IF c = "W" THEN 2 ELSE 1

RECURSIVE Advance(_)
Advance(s) ==
    IF Len(s) = 0 THEN 0 ELSE GlyphWidth(s[1]) + Advance(Tail(s))

\* ctx.measureText(s).width: the advance widths of the glyphs of s at the
\* font size of ctx
measureText(ctx, s) == ctx.font * Advance(s)

RECURSIVE TextsOfLen(_)
TextsOfLen(n) ==
    IF n = 0 THEN {<<>>}
    ELSE {<<c>> \o t : c \in WrapChars, t \in TextsOfLen(n - 1)}

Texts == UNION {TextsOfLen(n) : n \in 0..MaxTextLen}

\* one turn of the loop over words: st is [lines, currentLine]
WrapStep_NoBreak(ctx, st, word, maxWidth) ==
    LET testLine == IF st.currentLine # <<>>
                    THEN st.currentLine \o <<SP>> \o word ELSE word
    IN  [lines |-> st.lines, currentLine |-> testLine]

WrapStep(ctx, st, word, maxWidth) ==
    LET testLine == IF st.currentLine # <<>>
                    THEN st.currentLine \o <<SP>> \o word ELSE word
    IN  IF measureText(ctx, testLine) > maxWidth /\ st.currentLine # <<>>
        THEN [lines |-> Append(st.lines, st.currentLine), currentLine |-> word]
        ELSE [lines |-> st.lines, currentLine |-> testLine]

RECURSIVE WrapLoop(_, _, _, _)
WrapLoop(ctx, st, words, maxWidth) ==
    IF Len(words) = 0 THEN st
    ELSE WrapLoop(ctx, WrapStep(ctx, st, Head(words), maxWidth), Tail(words), maxWidth)

wrapText_DropLast(ctx, text, maxWidth) ==
    WrapLoop(ctx, [lines |-> <<>>, currentLine |-> <<>>], Split(text), maxWidth).lines

wrapText(ctx, text, maxWidth) ==
    LET st == WrapLoop(ctx, [lines |-> <<>>, currentLine |-> <<>>], Split(text), maxWidth)
    IN  IF st.currentLine # <<>> THEN Append(st.lines, st.currentLine) ELSE st.lines

WtIdle ==
    /\ wtText = <<>> /\ wtMax = 0 /\ wtFont = 0 /\ wtLines = <<>> /\ wtPc = "off"

WtInit ==
    /\ wtText \in Texts
    /\ wtMax \in 0..MaxWidth
    /\ wtFont \in 1..MaxFont
    /\ wtLines = <<>>
    /\ wtPc = "call"

\* the call wrapText(ctx, text, maxWidth)
WtCall ==
    /\ wtPc = "call"
    /\ wtLines' = wrapText([font |-> wtFont], wtText, wtMax)
    /\ wtPc' = "done"
    /\ UNCHANGED <<wtText, wtMax, wtFont>>

(***************************************************************************)
(* Date strings as the application renders them: moment(...).format(p)     *)
(***************************************************************************)
MaxDays == 2

DigitChars == <<"0", "1", "2", "3", "4", "5", "6", "7", "8", "9">>
Digit(n) == DigitChars[n + 1]
Pad2(n) == <<Digit(n \div 10), Digit(n % 10)>>
Num(n) == IF n < 10 THEN <<Digit(n)>> ELSE Pad2(n)

\* the days of the schedule: 4 November 2025 and the days after it
Days == 4..(3 + MaxDays)
\* the hours of the day (24 h clock) at which events start and end
Hours == {9, 10, 14}

\* date patterns: the two of the date format menu, a 24 hour pattern, a
\* pattern with seconds, and the pattern of the custom schedule
Patterns ==
    { [date |-> "MM-DD-YYYY", hour |-> "hh", sec |-> FALSE, merid |-> TRUE],
      [date |-> "DD-MM-YYYY", hour |-> "hh", sec |-> FALSE, merid |-> TRUE],
      [date |-> "MM-DD-YYYY", hour |-> "HH", sec |-> FALSE, merid |-> FALSE],
      [date |-> "MM-DD-YYYY", hour |-> "h", sec |-> TRUE, merid |-> TRUE],
      [date |-> "MMM D, YYYY [at]", hour |-> "h", sec |-> FALSE, merid |-> TRUE] }

Year == <<"2", "0", "2", "5">>
Hour12(h) == IF h % 12 = 0 THEN 12 ELSE h % 12

FormatDay(day, p) ==
    CASE p.date = "MM-DD-YYYY" -> Pad2(11) \o <<"-">> \o Pad2(day) \o <<"-">> \o Year
      [] p.date = "DD-MM-YYYY" -> Pad2(day) \o <<"-">> \o Pad2(11) \o <<"-">> \o Year
      [] OTHER -> <<"N", "o", "v">> \o <<SP>> \o Num(day) \o <<",", SP>> \o Year \o <<" ", "a", "t">>

\* the time-of-day token: H:MM, with seconds and AM/PM as the pattern says
FormatTime(h, p) ==
    (CASE p.hour = "hh" -> Pad2(Hour12(h))
       [] p.hour = "h" -> Num(Hour12(h))
       [] OTHER -> Pad2(h))
    \o <<":">> \o Pad2(0)
    \o (IF p.sec THEN <<":">> \o Pad2(5) ELSE <<>>)
    \o (IF p.merid THEN <<SP, IF h < 12 THEN "A" ELSE "P", "M">> ELSE <<>>)

\* moment(m).format(p) of the instant m = [day, hour]
Format(m, p) == FormatDay(m.day, p) \o <<SP>> \o FormatTime(m.hour, p)

Instants == [day : Days, hour : Hours]

\* strings that are no rendering of an instant
Malformed ==
    { <<>>, <<"T", "B", "D">>, <<"x", " ", "y", " ", "z">>, <<"x", " ", " ", "y">>, Year, Pad2(11) \o <<"-">> \o Pad2(4) }

(***************************************************************************)
(* formatStartEndDates, extractDatePart, extractTimePart                   *)
(***************************************************************************)
IsDigit(c) == c \in {"0", "1", "2", "3", "4", "5", "6", "7", "8", "9"}
IsWhite(c) == c = SP

At(s, i) == IF i >= 1 /\ i <= Len(s) THEN s[i] ELSE "$"

\* \d{1,2}:\d{2} matched at index i of s: the index of its last character, or 0
TimeEndAt(s, i) ==
    IF /\ IsDigit(At(s, i)) /\ IsDigit(At(s, i + 1)) /\ At(s, i + 2) = ":"
       /\ IsDigit(At(s, i + 3)) /\ IsDigit(At(s, i + 4))
    THEN i + 4
    ELSE IF /\ IsDigit(At(s, i)) /\ At(s, i + 1) = ":"
            /\ IsDigit(At(s, i + 2)) /\ IsDigit(At(s, i + 3))
    THEN i + 3
    ELSE 0

RECURSIVE SkipWhite(_, _)
SkipWhite(s, i) == IF IsWhite(At(s, i)) THEN SkipWhite(s, i + 1) ELSE i

SetMin(S) == CHOOSE x \in S : \A y \in S : x <= y

\* dateString.match(/^(.*?)\s+\d{1,2}:\d{2}/): group 1, or Null
MatchDateTime(s) ==
    LET K == {k \in 0..Len(s) :
                /\ IsWhite(At(s, k + 1))
                /\ TimeEndAt(s, SkipWhite(s, k + 1)) > 0}
    IN  IF K = {} THEN Null ELSE SubSeq(s, 1, SetMin(K))

\* parts.findIndex(part => /^\d{1,2}:\d{2}/.test(part)), 0-based, -1 if none
FindTimeIndex(parts) ==
    LET I == {i \in 1..Len(parts) : TimeEndAt(parts[i], 1) > 0}
    IN  IF I = {} THEN -1 ELSE SetMin(I) - 1

extractDatePart(dateString, format) ==
    LET match == MatchDateTime(dateString)
        parts == Split(dateString)
        timeIndex == FindTimeIndex(parts)
    IN  IF match # Null THEN Trim(match)
        ELSE IF timeIndex > 0 THEN Join(SubSeq(parts, 1, timeIndex))
        ELSE dateString

IsAP(c) == c \in {"A", "P", "a", "p"}
IsM(c) == c \in {"M", "m"}

\* \d{1,2}:\d{2}\s*(?:A|P)M, case-insensitive, matched at index i of s: the
\* index of its last character, or 0
MeridTimeEndAt(s, i) ==
    LET e == TimeEndAt(s, i)
        a == SkipWhite(s, e + 1)
    IN  IF e > 0 /\ IsAP(At(s, a)) /\ IsM(At(s, a + 1)) THEN a + 1 ELSE 0

\* dateString.match(/(\d{1,2}:\d{2}\s*(?:A|P)M)/i): group 1, or Null
MatchTime(s) ==
    LET I == {i \in 1..Len(s) : MeridTimeEndAt(s, i) > 0}
    IN  IF I = {} THEN Null
        ELSE SubSeq(s, SetMin(I), MeridTimeEndAt(s, SetMin(I)))

\* parts.slice(-n)
LastN(parts, n) == SubSeq(parts, Max(1, Len(parts) - n + 1), Len(parts))

extractTimePart_LastOne(dateString, format) ==
    LET match == MatchTime(dateString)
    IN  IF match # Null THEN Trim(match)
        ELSE Join(LastN(Split(dateString), 1))

extractTimePart(dateString, format) ==
    LET match == MatchTime(dateString)
    IN  IF match # Null THEN Trim(match)
        ELSE Join(LastN(Split(dateString), 2))

\* !end
Falsy(str) == str = Null \/ str = <<>>

formatStartEndDates_EmptyEnd(start, end, dateFormat) ==
    IF Falsy(end) THEN [startDisplay |-> start, endDisplay |-> <<>>]
    ELSE IF extractDatePart(start, dateFormat) = extractDatePart(end, dateFormat)
    THEN [startDisplay |-> start, endDisplay |-> extractTimePart(end, dateFormat)]
    ELSE [startDisplay |-> start, endDisplay |-> end]

formatStartEndDates_AlwaysCollapse(start, end, dateFormat) ==
    IF Falsy(end) THEN [startDisplay |-> start, endDisplay |-> Null]
    ELSE [startDisplay |-> start, endDisplay |-> extractTimePart(end, dateFormat)]

formatStartEndDates(start, end, dateFormat) ==
    IF Falsy(end) THEN [startDisplay |-> start, endDisplay |-> Null]
    ELSE IF extractDatePart(start, dateFormat) = extractDatePart(end, dateFormat)
    THEN [startDisplay |-> start, endDisplay |-> extractTimePart(end, dateFormat)]
    ELSE [startDisplay |-> start, endDisplay |-> end]

NoOut == [startDisplay |-> Null, endDisplay |-> Null]
NoPattern == [date |-> "none", hour |-> "none", sec |-> FALSE, merid |-> FALSE]
NoInstant == [day |-> 0, hour |-> 0]

FdIdle ==
    /\ fdPattern = NoPattern /\ fdStartC = NoInstant /\ fdEndC = NoInstant
    /\ fdStart = <<>> /\ fdEnd = Null /\ fdOut = NoOut /\ fdPc = "off"

\* start and end are renderings of instants in one pattern, or malformed
\* strings; end may be absent
FdInit ==
    /\ fdPattern \in Patterns
    /\ \/ fdStartC \in Instants /\ fdStart = Format(fdStartC, fdPattern)
       \/ fdStartC = NoInstant /\ fdStart \in Malformed
    /\ \/ fdEndC \in Instants /\ fdEnd = Format(fdEndC, fdPattern)
       \/ fdEndC = NoInstant /\ fdEnd \in Malformed \cup {Null}
    /\ fdOut = NoOut
    /\ fdPc = "call"

\* the call formatStartEndDates(start, end, pattern)
FdCall ==
    /\ fdPc = "call"
    /\ fdOut' = formatStartEndDates(fdStart, fdEnd, fdPattern)
    /\ fdPc' = "done"
    /\ UNCHANGED <<fdPattern, fdStartC, fdEndC, fdStart, fdEnd>>

(***************************************************************************)
(* renderScheduleToCanvas and GenerateScheduleImage                        *)
(*                                                                         *)
(* Vertical positions and heights are in units of 1/2000 px and font and   *)
(* image sizes in units of 1/100 px, so that every product with fitScale   *)
(* (hundredths), 1.2, 1.3 and 1.5 and the halving that centres the rows    *)
(* are exact.                                                              *)
(***************************************************************************)
MaxRenderCount == 9
MaxEvents == 2

TYPOGRAPHY ==
    [titleSize |-> 56, subtitleSize |-> 42, eventTitleSize |-> 44,
     eventMetaSize |-> 32, footerSize |-> 12]

LAYOUT ==
    [eventImageWidth |-> 130, eventImageHeight |-> 182, avatarSize |-> 110,
     eventImageGap |-> 8, footerHeight |-> 30]

Px(n) == n * 2000

\* scaleDimension(value, fitScale), in 1/2000 px
scaleDimension(value, scale) == value * scale * 20

\* a font or image size of value * fitScale px, in 1/100 px
Size(value, scale) == value * scale

\* events.filter(e => e && e.summary).slice(0, 7)
Truthy(events) == SelectSeq(events, LAMBDA e : e.summary)
validEventsOf_Reversed(events) ==
    [i \in 1..Min(7, Len(Truthy(events))) |->
        Truthy(events)[Min(7, Len(Truthy(events))) + 1 - i]]
validEventsOf_NoLimit(events) == Truthy(events)
validEventsOf(events) == SubSeq(Truthy(events), 1, Min(7, Len(Truthy(events))))

eventTitleLine(fs) == (scaleDimension(TYPOGRAPHY.eventTitleSize, fs) * 12) \div 10
eventMetaLine(fs) == (scaleDimension(TYPOGRAPHY.eventMetaSize, fs) * 13) \div 10

\* the eventHeight of the pass that sums the heights
plannedHeight(e, fs) ==
    Max(e.lines * eventTitleLine(fs) + eventMetaLine(fs) * 2,
        scaleDimension(LAYOUT.eventImageHeight, fs))
    + scaleDimension(16, fs)

RECURSIVE totalEventHeight(_, _)
totalEventHeight(evs, fs) ==
    IF Len(evs) = 0 THEN 0
    ELSE plannedHeight(Head(evs), fs) + totalEventHeight(Tail(evs), fs)

contentHeight(fs) ==
    Px(1350) - Px(210) - scaleDimension(LAYOUT.footerHeight, fs) - Px(40)

startingY_NoClamp(evs, fs) ==
    Px(210) + (contentHeight(fs) - totalEventHeight(evs, fs)) \div 2

startingY(evs, fs) ==
    Px(210) + Max(0, (contentHeight(fs) - totalEventHeight(evs, fs)) \div 2)

eventHeight_NoImage(e, fs, showEndDate, showDuration) ==
    e.lines * eventTitleLine(fs)
      + eventMetaLine(fs) * (2 + (IF showEndDate /\ e.end THEN 1 ELSE 0)
                               + (IF showDuration /\ e.duration THEN 1 ELSE 0))
      + scaleDimension(16, fs)

\* the eventHeight by which currentY is advanced after a row
eventHeight(e, fs, showEndDate, showDuration) ==
    Max(e.lines * eventTitleLine(fs)
          + eventMetaLine(fs) * (2 + (IF showEndDate /\ e.end THEN 1 ELSE 0)
                                   + (IF showDuration /\ e.duration THEN 1 ELSE 0)),
        scaleDimension(LAYOUT.eventImageHeight, fs))
    + scaleDimension(16, fs)

\* one drawing call on the context
Op(op, what, row, y, size, arg) ==
    [op |-> op, what |-> what, row |-> row, y |-> y, size |-> size, arg |-> arg]

backgroundOps == <<Op("fillRect", "background", 0, 0, 0, <<>>)>>

\* events.findLast(e => e.start) || events[0]
lastEventWithStart(events) ==
    LET I == {i \in 1..Len(events) : events[i].start # 0}
    IN  IF I = {} THEN events[1]
        ELSE events[CHOOSE i \in I : \A j \in I : j <= i]

\* the title and, for more than one event, the date range under it
headerOps(events, fs) ==
    LET titleY == Px(65) + scaleDimension(LAYOUT.avatarSize, 100) + Px(16)
    IN  <<Op("fillText", "title", 0, titleY, Size(TYPOGRAPHY.titleSize, fs), <<>>)>>
        \o (IF Len(events) > 0 /\ events[1].start # 0 /\ Len(events) > 1
            THEN <<Op("fillText", "subtitle", 0,
                      titleY + scaleDimension(TYPOGRAPHY.titleSize, fs) + Px(8),
                      Size(TYPOGRAPHY.subtitleSize, fs),
                      <<events[1].start, lastEventWithStart(events).start>>)>>
            ELSE <<>>)

\* the title lines of row i from the top y
titleOps(i, e, y, fs) ==
    [k \in 1..e.lines |->
        Op("fillText", "eventTitle", i, y + (k - 1) * eventTitleLine(fs),
           Size(TYPOGRAPHY.eventTitleSize, fs), <<k>>)]

\* the category line, the date line and the duration line of row i
metaOps(i, e, y, fs, showEndDate, showDuration) ==
    LET metaY == y + e.lines * eventTitleLine(fs)
        meta == Size(TYPOGRAPHY.eventMetaSize, fs)
    IN  <<Op("fillText", "category", i, metaY, meta, <<>>)>>
        \o (IF ~showEndDate
            THEN <<Op("fillText", "date", i, metaY + eventMetaLine(fs), meta, <<e.start>>)>>
            ELSE IF e.end
            THEN <<Op("fillText", "date", i, metaY + eventMetaLine(fs), meta, <<e.start, "end">>)>>
            ELSE <<>>)
        \o (IF showDuration /\ e.duration
            THEN <<Op("fillText", "duration", i, metaY + 2 * eventMetaLine(fs), meta, <<>>)>>
            ELSE <<>>)

footerOps(fs) ==
    <<Op("fillText", "footer", 0, Px(1350) - Px(35),
         (Size(TYPOGRAPHY.footerSize, fs) * 15) \div 10, <<>>)>>

\* what ctx.drawImage paints for the avatar and for the image of row i
avatarOp ==
    Op("drawImage", "avatar", 0, Px(65), Size(LAYOUT.avatarSize, 100), <<>>)
categoryImageOp(i, y, fs) ==
    Op("drawImage", "categoryImage", i, y, Size(LAYOUT.eventImageHeight, fs),
       <<Size(LAYOUT.eventImageWidth, fs)>>)

RECURSIVE renderRows_NoAwait(_, _, _, _, _, _, _)
renderRows_NoAwait(evs, i, y, ops, fs, showEndDate, showDuration) ==
    IF i > Len(evs)
    THEN [pc |-> "resolved", idx |-> 0, currentY |-> y, ops |-> ops \o footerOps(fs),
          started |-> 0]
    ELSE LET e == evs[i]
             drawn == ops \o titleOps(i, e, y, fs)
                          \o metaOps(i, e, y, fs, showEndDate, showDuration)
             rest == renderRows_NoAwait(evs, i + 1,
                                        y + eventHeight(e, fs, showEndDate, showDuration),
                                        drawn, fs, showEndDate, showDuration)
         IN  IF e.categoryImage
             THEN [pc |-> "row", idx |-> i, currentY |-> y, ops |-> rest.ops,
                   started |-> 1 + rest.started]
             ELSE rest

\* The loop over validEvents from row i with currentY = y, run to the next
\* await: it stops at the first row with a category image, whose load it
\* starts, or paints the footer and encodes the canvas.
RECURSIVE renderRows(_, _, _, _, _, _, _)
renderRows(evs, i, y, ops, fs, showEndDate, showDuration) ==
    IF i > Len(evs)
    THEN [pc |-> "resolved", idx |-> 0, currentY |-> y, ops |-> ops \o footerOps(fs),
          started |-> 0]
    ELSE LET e == evs[i]
             drawn == ops \o titleOps(i, e, y, fs)
                          \o metaOps(i, e, y, fs, showEndDate, showDuration)
         IN  IF e.categoryImage
             THEN [pc |-> "row", idx |-> i, currentY |-> y, ops |-> drawn, started |-> 1]
             ELSE renderRows(evs, i + 1, y + eventHeight(e, fs, showEndDate, showDuration),
                             drawn, fs, showEndDate, showDuration)

\* from the title to the next await
renderHeaderAndRows(events, ops, fs, showEndDate, showDuration) ==
    renderRows(validEventsOf(events), 1, startingY(validEventsOf(events), fs),
               ops \o headerOps(events, fs), fs, showEndDate, showDuration)


\* renderScheduleToCanvas from its call to its first await: the context is
\* obtained or the call throws, the background is filled, and the avatar
\* load is started or the header and the rows follow at once
renderBegin_BlankOnNoContext(ctxOk, profile, events, fs, showEndDate, showDuration) ==
    IF ~ctxOk
    THEN [pc |-> "resolved", idx |-> 0, currentY |-> 0, ops |-> <<>>, started |-> 0]
    ELSE IF profile
    THEN [pc |-> "avatar", idx |-> 0, currentY |-> 0, ops |-> backgroundOps, started |-> 1]
    ELSE renderHeaderAndRows(events, backgroundOps, fs, showEndDate, showDuration)

renderBegin_AlwaysAvatar(ctxOk, profile, events, fs, showEndDate, showDuration) ==
    IF ~ctxOk
    THEN [pc |-> "rejected", idx |-> 0, currentY |-> 0, ops |-> <<>>, started |-> 0]
    ELSE [pc |-> "avatar", idx |-> 0, currentY |-> 0, ops |-> backgroundOps, started |-> 1]

renderBegin(ctxOk, profile, events, fs, showEndDate, showDuration) ==
    IF ~ctxOk
    THEN [pc |-> "rejected", idx |-> 0, currentY |-> 0, ops |-> <<>>, started |-> 0]
    ELSE IF profile
    THEN [pc |-> "avatar", idx |-> 0, currentY |-> 0, ops |-> backgroundOps, started |-> 1]
    ELSE renderHeaderAndRows(events, backgroundOps, fs, showEndDate, showDuration)

\* renderScheduleToCanvas from the settling of an awaited drawImage, which
\* left the drawing calls ops, to the next await
renderResume(pc, idx, y, ops, events, fs, showEndDate, showDuration) ==
    IF pc = "avatar"
    THEN renderHeaderAndRows(events, ops, fs, showEndDate, showDuration)
    ELSE renderRows(validEventsOf(events), idx + 1,
                    y + eventHeight(validEventsOf(events)[idx], fs, showEndDate, showDuration),
                    ops, fs, showEndDate, showDuration)

\* the image that img.onload of the awaited drawImage paints
awaitedImageOp(pc, idx, y, fs) ==
    IF pc = "avatar" THEN avatarOp ELSE categoryImageOp(idx, y, fs)

\* The calls after[Len(before) + 1 ..] as they reach the canvas, added to
\* those that reached it already.  drawImage clips to the rectangle of its
\* image between ctx.save and ctx.restore; when ctx.drawImage throws, the
\* catch rejects before ctx.restore, and the clip stays on the context for
\* the rest of the render.  The rectangle of an image meets no text and no
\* other image (the texts of a row end eventImageGap left of its image, the
\* next rows and the footer are below it, the avatar is above the title),
\* so with depth saves left unrestored a later call paints nothing.
paintedOps(prev, before, after, depth) ==
    IF depth = 0 THEN prev \o SubSeq(after, Len(before) + 1, Len(after)) ELSE prev

\* how the promise of drawImage settles: img.onload resolves after the
\* restore, its catch rejects, img.onerror rejects
drawImageSettles_Swallow(outcome) == "resolved"

drawImageSettles(outcome) == IF outcome = "drawn" THEN "resolved" ELSE "rejected"

NoImage == [what |-> "none", row |-> 0, outcome |-> "none", promise |-> "none"]

\* the awaited drawImage once settled
settledImage(pc, idx, outcome) ==
    [what |-> IF pc = "avatar" THEN "avatar" ELSE "categoryImage", row |-> idx,
     outcome |-> outcome, promise |-> drawImageSettles(outcome)]

\* what GenerateScheduleImage returns once the render has settled
generateResult(pc) == IF pc = "resolved" THEN "dataUrl" ELSE "null"

RenderIdle ==
    /\ rEventCount = 0 /\ rEvents = <<>> /\ rProfile = FALSE
    /\ rShowEnd = FALSE /\ rShowDur = FALSE /\ rCtxOk = FALSE
    /\ rPc = "off" /\ rFitScale = 0 /\ rIdx = 0 /\ rY = 0 /\ rOps = <<>>
    /\ rLoads = 0 /\ rDepth = 0 /\ gPc = "off" /\ gResult = "pending"
    /\ rSettled = 0 /\ rPainted = <<>> /\ rImage = NoImage

\* the events given to a render
EventKinds ==
    { [summary |-> TRUE, start |-> 1, end |-> FALSE, duration |-> FALSE,
       categoryImage |-> FALSE, lines |-> 1],
      [summary |-> TRUE, start |-> 1, end |-> TRUE, duration |-> TRUE,
       categoryImage |-> FALSE, lines |-> 1],
      [summary |-> TRUE, start |-> 1, end |-> TRUE, duration |-> TRUE,
       categoryImage |-> TRUE, lines |-> 1],
      [summary |-> TRUE, start |-> 2, end |-> TRUE, duration |-> FALSE,
       categoryImage |-> TRUE, lines |-> 2],
      [summary |-> FALSE, start |-> 2, end |-> FALSE, duration |-> FALSE,
       categoryImage |-> FALSE, lines |-> 1] }

\* m events a followed by n - m events b
Fill(n, m, a, b) == [i \in 1..n |-> IF i <= m THEN a ELSE b]

\* the lists of at most n events, of one kind or of one kind followed by
\* another
EventLists(n) ==
    {Fill(k, m, a, b) : k \in 0..n, m \in 0..n, a \in EventKinds, b \in EventKinds}

RenderInit ==
    /\ rEventCount \in 0..MaxRenderCount
    /\ rEvents \in EventLists(MaxEvents)
    /\ rProfile \in BOOLEAN
    /\ rShowEnd \in BOOLEAN
    /\ rShowDur \in BOOLEAN
    /\ rCtxOk \in BOOLEAN
    /\ rPc = "idle" /\ rFitScale = 0 /\ rIdx = 0 /\ rY = 0 /\ rOps = <<>>
    /\ rLoads = 0 /\ rDepth = 0 /\ gPc = "idle" /\ gResult = "pending"
    /\ rSettled = 0 /\ rPainted = <<>> /\ rImage = NoImage

rInputs == <<rEventCount, rEvents, rProfile, rShowEnd, rShowDur, rCtxOk>>

\* GenerateScheduleImage(props): it calls renderScheduleToCanvas, which runs
\* to its first await or throws, and awaits the promise
GenerateCall(eventCount, events, profile, showEndDate, showDuration, ctxOk) ==
    LET fs == calculateFitScale(eventCount)
        r == renderBegin(ctxOk, profile, events, fs, showEndDate, showDuration)
    IN  /\ rFitScale' = fs
        /\ rPc' = r.pc
        /\ rIdx' = r.idx
        /\ rY' = r.currentY
        /\ rOps' = r.ops
        /\ rPainted' = r.ops
        /\ rLoads' = r.started
        /\ rSettled' = 0
        /\ rDepth' = 0
        /\ rImage' = NoImage
        /\ gPc' = "await"

GenerateScheduleImage ==
    /\ gPc = "idle"
    /\ GenerateCall(rEventCount, rEvents, rProfile, rShowEnd, rShowDur, rCtxOk)
    /\ UNCHANGED <<rInputs, gResult>>

\* img.onload of the awaited drawImage, no call throwing: save, clip,
\* drawImage, the border, restore, resolve; the render goes on
ImageLoaded ==
    /\ rPc \in {"avatar", "row"}
    /\ LET r == renderResume(rPc, rIdx, rY, Append(rOps, awaitedImageOp(rPc, rIdx, rY, rFitScale)),
                             rEvents, rFitScale, rShowEnd, rShowDur)
       IN  /\ rPc' = r.pc
           /\ rIdx' = r.idx
           /\ rY' = r.currentY
           /\ rOps' = r.ops
           /\ rLoads' = rLoads + r.started
           /\ rPainted' = paintedOps(rPainted, rOps, r.ops, rDepth)
    /\ rSettled' = rSettled + 1
    /\ rImage' = settledImage(rPc, rIdx, "drawn")
    /\ UNCHANGED <<rInputs, rFitScale, rDepth, gPc, gResult>>

\* img.onload of the awaited drawImage, ctx.drawImage throwing: save, clip,
\* then the catch rejects, with no restore; the render catches and goes on
ImageDrawThrows ==
    /\ rPc \in {"avatar", "row"}
    /\ LET r == renderResume(rPc, rIdx, rY, rOps, rEvents, rFitScale, rShowEnd, rShowDur)
       IN  /\ rPc' = r.pc
           /\ rIdx' = r.idx
           /\ rY' = r.currentY
           /\ rOps' = r.ops
           /\ rLoads' = rLoads + r.started
           /\ rPainted' = paintedOps(rPainted, rOps, r.ops, rDepth + 1)
    /\ rSettled' = rSettled + 1
    /\ rImage' = settledImage(rPc, rIdx, "drawError")
    /\ rDepth' = rDepth + 1
    /\ UNCHANGED <<rInputs, rFitScale, gPc, gResult>>

\* img.onerror of the awaited drawImage: reject; the render catches and
\* goes on
ImageError ==
    /\ rPc \in {"avatar", "row"}
    /\ LET r == renderResume(rPc, rIdx, rY, rOps, rEvents, rFitScale, rShowEnd, rShowDur)
       IN  /\ rPc' = r.pc
           /\ rIdx' = r.idx
           /\ rY' = r.currentY
           /\ rOps' = r.ops
           /\ rLoads' = rLoads + r.started
           /\ rPainted' = paintedOps(rPainted, rOps, r.ops, rDepth)
    /\ rSettled' = rSettled + 1
    /\ rImage' = settledImage(rPc, rIdx, "loadError")
    /\ UNCHANGED <<rInputs, rFitScale, rDepth, gPc, gResult>>

\* the await of GenerateScheduleImage ends: the data URL is returned, or
\* the catch returns null
GenerateReturns ==
    /\ gPc = "await"
    /\ rPc \in {"resolved", "rejected"}
    /\ gResult' = generateResult(rPc)
    /\ gPc' = "returned"
    /\ UNCHANGED <<rInputs, rPc, rFitScale, rIdx, rY, rOps, rLoads, rDepth,
                   rSettled, rPainted, rImage>>


(***************************************************************************)
(* The App component.  Two sources of it are in the tree: src/src/App.tsx  *)
(* and unnamed/part_005, which adds the image, the preview list limited to *)
(* maxEvents and the reset.  aError names the message shown, "" for none.  *)
(***************************************************************************)
MaxTyped == 3
MaxListLen == 8
MaxImaged == 2

AppSources == {"App.tsx", "part_005"}

\* a character outside ASCII
NonAscii == "U+00E9"

\* the characters typed into the fields
TypedChars == {"a", "_", SP, "!", NonAscii}

RECURSIVE TypedOfLen(_)
TypedOfLen(n) ==
    IF n = 0 THEN {<<>>}
    ELSE {Append(t, c) : t \in TypedOfLen(n - 1), c \in TypedChars}

TypedValues == UNION {TypedOfLen(n) : n \in 0..MaxTyped}

\* the class [a-zA-Z0-9_ ]
UsernameChars == {"a", "7", "_", SP}

\* value.replace(/[^a-zA-Z0-9_ ]/g, '')
sanitize(value) == SelectSeq(value, LAMBDA c : c \in UsernameChars)

\* onChange of the Twitch username field of part_005: what it stores for
\* the value of the change event
onChangeTwitchUsername(value) == Trim(sanitize(value))

\* onChange of the Twitch username field of App.tsx:
\* setTwitchUsername(e.target.value)
setTwitchUsername(value) == value

\* events.slice(0, maxEvents), the list of the preview and the eventCount
eventsForImage(events) == SubSeq(events, 1, Min(7, Len(events)))

\* handleSubmit of part_005: whether it sets the error and returns, calling
\* no fetchAndParseCalendar
handleSubmit_FetchAnyway(username) == FALSE

handleSubmit(username) == username = <<>>

\* handleSubmit of App.tsx, likewise
handleSubmitWebcal(username, webcal) == username = <<>> /\ webcal = <<>>

\* the events the App holds: parsing and the schedule dialog give each a
\* summary
plainEvent ==
    [summary |-> TRUE, start |-> 1, end |-> FALSE, duration |-> FALSE,
     categoryImage |-> FALSE, lines |-> 1]
tallEvent ==
    [summary |-> TRUE, start |-> 2, end |-> TRUE, duration |-> TRUE,
     categoryImage |-> FALSE, lines |-> 4]
imagedEvent ==
    [summary |-> TRUE, start |-> 1, end |-> TRUE, duration |-> FALSE,
     categoryImage |-> TRUE, lines |-> 1]
AppKinds == {plainEvent, tallEvent, imagedEvent}

Imaged(events) == Len(SelectSeq(events, LAMBDA e : e.categoryImage))

\* the event lists a fetch gives
AppLists ==
    {l \in {Fill(n, m, a, b) : n \in 1..MaxListLen, m \in 0..MaxListLen,
                               a \in AppKinds, b \in AppKinds} :
        Imaged(l) <= MaxImaged}
ShortLists == {<<>>, <<plainEvent>>}

AppIdle ==
    /\ aSource = "none" /\ aUsername = <<>> /\ aWebcal = <<>> /\ aError = ""
    /\ aLoading = FALSE /\ aEvents = <<>> /\ aPreview = <<>>
    /\ aShareSheetOpen = FALSE /\ aPc = "off" /\ aImage = <<>>

\* the App as mounted
AppInit ==
    /\ aSource \in AppSources /\ aUsername = <<>> /\ aWebcal = <<>> /\ aError = ""
    /\ aLoading = FALSE /\ aEvents = <<>> /\ aPreview = <<>>
    /\ aShareSheetOpen = FALSE /\ aPc = "idle" /\ aImage = <<>>

\* the App of part_005 after the submit of a username, its fetch in flight
AppFetching ==
    /\ aSource = "part_005" /\ aUsername = <<"a">> /\ aWebcal = <<>> /\ aError = ""
    /\ aLoading = TRUE /\ aEvents = <<>> /\ aPreview = <<>>
    /\ aShareSheetOpen = FALSE /\ aPc = "fetching" /\ aImage = <<>>

\* a change event on the Twitch username field
ChangeTwitchUsername ==
    /\ aPc \in {"idle", "fetching"}
    /\ \E value \in TypedValues :
          aUsername' = IF aSource = "part_005" THEN onChangeTwitchUsername(value)
                       ELSE setTwitchUsername(value)
    /\ UNCHANGED <<aSource, aWebcal, aError, aLoading, aEvents, aPreview,
                   aShareSheetOpen, aPc, aImage>>

\* a change event on the calendar URL field, which App.tsx has
ChangeWebcalUrl ==
    /\ aPc \in {"idle", "fetching"}
    /\ aSource = "App.tsx"
    /\ \E value \in {<<>>, <<"a">>} : aWebcal' = value
    /\ UNCHANGED <<aSource, aUsername, aError, aLoading, aEvents, aPreview,
                   aShareSheetOpen, aPc, aImage>>

\* the submit of the form, whose button is disabled while loading:
\* handleSubmit sets the error and returns, or calls fetchAndParseCalendar,
\* which clears the error and the events, sets loading and awaits
HandleSubmit ==
    /\ aPc = "idle"
    /\ ~aLoading
    /\ IF (IF aSource = "part_005" THEN handleSubmit(aUsername)
           ELSE handleSubmitWebcal(aUsername, aWebcal))
       THEN /\ aError' = (IF aSource = "part_005" THEN "Enter Twitch username"
                         ELSE "Enter Twitch username or webcal URL")
            /\ UNCHANGED <<aLoading, aEvents, aPreview, aPc>>
       ELSE /\ aError' = ""
            /\ aEvents' = <<>>
            /\ aPreview' = <<>>
            /\ aLoading' = TRUE
            /\ aPc' = "fetching"
    /\ UNCHANGED <<aSource, aUsername, aWebcal, aShareSheetOpen, aImage>>

\* fetchAndParseCalendar gets no broadcaster id for the username and returns
\* before its try: loading stays set; in App.tsx the lookup has set the error
\* when it failed, and not when it found no user
BroadcasterMissing ==
    /\ aPc = "fetching"
    /\ aUsername # <<>>
    /\ \E failed \in BOOLEAN :
          aError' = IF aSource = "App.tsx" /\ failed THEN "Invalid Twitch username"
                    ELSE aError
    /\ aPc' = "idle"
    /\ UNCHANGED <<aSource, aUsername, aWebcal, aLoading, aEvents, aPreview,
                   aShareSheetOpen, aImage>>

\* fetchAndParseCalendar ends with the events of lists: setEvents, and the
\* finally clears loading; part_005 shows the first maxEvents of them
FetchResolvesWith(lists) ==
    /\ aPc = "fetching"
    /\ \E l \in lists :
          /\ aEvents' = l
          /\ aPreview' = IF aSource = "part_005" THEN eventsForImage(l) ELSE l
    /\ aLoading' = FALSE
    /\ aPc' = "idle"
    /\ UNCHANGED <<aSource, aUsername, aWebcal, aError, aShareSheetOpen, aImage>>

FormFetchResolves == FetchResolvesWith(ShortLists)
ShareFetchResolves == FetchResolvesWith(AppLists)

\* fetchAndParseCalendar catches: the error is set and the finally clears
\* loading
FetchRejects ==
    /\ aPc = "fetching"
    /\ aError' = "Error fetching or parsing calendar"
    /\ aLoading' = FALSE
    /\ aPc' = "idle"
    /\ UNCHANGED <<aSource, aUsername, aWebcal, aEvents, aPreview,
                   aShareSheetOpen, aImage>>

\* handleReset of part_005
HandleReset ==
    /\ aPc \in {"idle", "fetching"}
    /\ aSource = "part_005"
    /\ aWebcal' = <<>>
    /\ aUsername' = <<>>
    /\ aEvents' = <<>>
    /\ aPreview' = <<>>
    /\ aError' = ""
    /\ aShareSheetOpen' = FALSE
    /\ aImage' = <<>>
    /\ UNCHANGED <<aSource, aLoading, aPc>>

\* a click on Share Schedule of part_005, shown when there are events:
\* GenerateScheduleImage is called with all the events, the eventCount of
\* eventsForImage, the profile image and the two switches of the App
ShareSchedule ==
    /\ aPc = "idle"
    /\ aEvents # <<>>
    /\ gPc = "off"
    /\ \E profile \in BOOLEAN, showEndDate \in BOOLEAN, showDuration \in BOOLEAN,
          ctxOk \in BOOLEAN :
          /\ rEventCount' = Len(eventsForImage(aEvents))
          /\ rEvents' = aEvents
          /\ rProfile' = profile
          /\ rShowEnd' = showEndDate
          /\ rShowDur' = showDuration
          /\ rCtxOk' = ctxOk
          /\ GenerateCall(Len(eventsForImage(aEvents)), aEvents, profile,
                          showEndDate, showDuration, ctxOk)
    /\ gResult' = "pending"
    /\ UNCHANGED appVars

\* the click handler after its await: with an image, setScheduleImageDataUrl
\* and the share sheet opens
ShareReturns ==
    /\ GenerateReturns
    /\ aImage' = IF generateResult(rPc) = "dataUrl" THEN rEvents ELSE aImage
    /\ aShareSheetOpen' = (aShareSheetOpen \/ generateResult(rPc) = "dataUrl")
    /\ UNCHANGED <<aSource, aUsername, aWebcal, aError, aLoading, aEvents, aPreview, aPc>>

(***************************************************************************)
(* The date format of the App of part_005.  An event is kept here as the   *)
(* patterns its start and end strings are formatted with, "null" for an    *)
(* event without end.                                                      *)
(***************************************************************************)
MaxFormatted == 4

MDY == "MM-DD-YYYY hh:mm A"
DMY == "DD-MM-YYYY hh:mm A"

\* the MenuItems of the Date Format select
DateFormats == {MDY, DMY}

\* the start and end of an event pushed by fetchAndParseCalendar
parsedEvent(dateFormat, hasEnd) ==
    [start |-> dateFormat, end |-> IF hasEnd THEN dateFormat ELSE "null"]

\* the start and end of the newEvent of the dialog's handleAddEvent
customEvent == [start |-> MDY, end |-> MDY]

\* the effect on [dateFormat]: {...event, start: startMoment.format(dateFormat)}
updatedEvents(events, dateFormat) ==
    [i \in 1..Len(events) |-> [events[i] EXCEPT !.start = dateFormat]]

\* the App as mounted: useState('MM-DD-YYYY hh:mm A'), no events
FormatInit == aDateFormat = MDY /\ aPatterns = <<>> /\ aFetchFormat = "none"

\* fetchAndParseCalendar starts: setEvents([]); the function keeps the
\* dateFormat of the render it was created in
FormatFetchStarts ==
    /\ aFetchFormat = "none"
    /\ aFetchFormat' = aDateFormat
    /\ aPatterns' = <<>>
    /\ UNCHANGED aDateFormat

\* fetchAndParseCalendar sets the parsed events, formatted with its dateFormat
FormatFetchResolves ==
    /\ aFetchFormat # "none"
    /\ \E n \in 0..MaxFormatted, hasEnd \in [1..MaxFormatted -> BOOLEAN] :
          aPatterns' = [i \in 1..n |-> parsedEvent(aFetchFormat, hasEnd[i])]
    /\ aFetchFormat' = "none"
    /\ UNCHANGED aDateFormat

\* the Date Format select changes: setDateFormat, and the effect on
\* [dateFormat] re-formats the events when there are any
ChangeDateFormat ==
    /\ \E dateFormat \in DateFormats \ {aDateFormat} :
          /\ aDateFormat' = dateFormat
          /\ aPatterns' = IF Len(aPatterns) > 0
                          THEN updatedEvents(aPatterns, dateFormat)
                          ELSE aPatterns
    /\ UNCHANGED aFetchFormat

\* onSave of the dialog, opened on the events of the App, after k events
\* were added in it: setEvents(customEvents)
SaveCustomSchedule ==
    /\ \E k \in 1..MaxFormatted :
          /\ Len(aPatterns) + k <= MaxFormatted
          /\ aPatterns' = aPatterns \o [i \in 1..k |-> customEvent]
    /\ UNCHANGED <<aDateFormat, aFetchFormat>>

(***************************************************************************)
(* CreateScheduleDialog.  An event of the dialog is the number of its      *)
(* creation; editingEventIndex is an index from 1, 0 for null; dLoaded is  *)
(* the event that handleEditEvent loaded into the form, 0 for none.        *)
(***************************************************************************)
MaxDialogEvents == 5

\* an empty slot of a sparse array
Hole == 0

\* const updated = [...prev]; updated[editingEventIndex] = newEvent
updated(prev, editingEventIndex, newEvent) ==
    [k \in 1..Max(Len(prev), editingEventIndex) |->
        IF k = editingEventIndex THEN newEvent
        ELSE IF k <= Len(prev) THEN prev[k] ELSE Hole]

\* prev.filter((_, i) => i !== index), which skips empty slots
RECURSIVE filterFrom(_, _, _)
filterFrom(prev, index, k) ==
    IF k > Len(prev) THEN <<>>
    ELSE (IF k # index /\ prev[k] # Hole THEN <<prev[k]>> ELSE <<>>)
         \o filterFrom(prev, index, k + 1)
withoutIndex(prev, index) == filterFrom(prev, index, 1)

\* the dialog opened with no events
DialogInit == dEvents = <<>> /\ dEditing = 0 /\ dLoaded = 0 /\ dCreated = 0

\* handleAddEvent with a valid form: Update Event while editing, Add Event
\* otherwise; the form is cleared
HandleAddEvent ==
    /\ dCreated < MaxDialogEvents
    /\ dCreated' = dCreated + 1
    /\ IF dEditing # 0
       THEN /\ dEvents' = updated(dEvents, dEditing, dCreated + 1)
            /\ dEditing' = 0
       ELSE /\ dEvents' = Append(dEvents, dCreated + 1)
            /\ dEditing' = dEditing
    /\ dLoaded' = 0

\* handleEditEvent(index) from the Edit button of a listed event
HandleEditEvent ==
    /\ \E index \in 1..Len(dEvents) :
          /\ dEvents[index] # Hole
          /\ dLoaded' = dEvents[index]
          /\ dEditing' = index
    /\ UNCHANGED <<dEvents, dCreated>>

\* handleCancelEdit from the Cancel button, shown while editing
HandleCancelEdit ==
    /\ dEditing # 0
    /\ dEditing' = 0
    /\ dLoaded' = 0
    /\ UNCHANGED <<dEvents, dCreated>>

\* handleDeleteEvent(index) from the Delete button of a listed event
HandleDeleteEvent ==
    /\ \E index \in 1..Len(dEvents) :
          /\ dEvents[index] # Hole
          /\ dEvents' = withoutIndex(dEvents, index)
          /\ IF dEditing = index
             THEN dEditing' = 0 /\ dLoaded' = 0
             ELSE UNCHANGED <<dEditing, dLoaded>>
    /\ UNCHANGED dCreated

(***************************************************************************)
(* Specifications                                                          *)
(***************************************************************************)
vars == <<fitVars, wtVars, fdVars, rVars, appVars, fmtVars, dlgVars>>

\* a render of the schedule image
Init == FitIdle /\ WtIdle /\ FdIdle /\ RenderInit /\ AppIdle /\ FormatInit /\ DialogInit
Next ==
    \/ GenerateScheduleImage /\ UNCHANGED <<fitVars, wtVars, fdVars, appVars, fmtVars, dlgVars>>
    \/ ImageLoaded /\ UNCHANGED <<fitVars, wtVars, fdVars, appVars, fmtVars, dlgVars>>
    \/ ImageDrawThrows /\ UNCHANGED <<fitVars, wtVars, fdVars, appVars, fmtVars, dlgVars>>
    \/ ImageError /\ UNCHANGED <<fitVars, wtVars, fdVars, appVars, fmtVars, dlgVars>>
    \/ GenerateReturns /\ UNCHANGED <<fitVars, wtVars, fdVars, appVars, fmtVars, dlgVars>>
Spec == Init /\ [][Next]_vars

\* calculateFitScale alone
FitNext == FitCall /\ UNCHANGED <<wtVars, fdVars, rVars, appVars, fmtVars, dlgVars>>
InitFit == FitInit /\ WtIdle /\ FdIdle /\ RenderIdle /\ AppIdle /\ FormatInit /\ DialogInit
SpecFit == InitFit /\ [][FitNext]_vars

\* wrapText alone
WtNext == WtCall /\ UNCHANGED <<fitVars, fdVars, rVars, appVars, fmtVars, dlgVars>>
InitWrap == FitIdle /\ WtInit /\ FdIdle /\ RenderIdle /\ AppIdle /\ FormatInit /\ DialogInit
SpecWrap == InitWrap /\ [][WtNext]_vars

\* formatStartEndDates alone
FdNext == FdCall /\ UNCHANGED <<fitVars, wtVars, rVars, appVars, fmtVars, dlgVars>>
InitDates == FitIdle /\ WtIdle /\ FdInit /\ RenderIdle /\ AppIdle /\ FormatInit /\ DialogInit
SpecDates == InitDates /\ [][FdNext]_vars

\* the form of the App: typing, submitting, fetching, resetting
FormNext ==
    \/ ChangeTwitchUsername /\ UNCHANGED <<fitVars, wtVars, fdVars, rVars, fmtVars, dlgVars>>
    \/ ChangeWebcalUrl /\ UNCHANGED <<fitVars, wtVars, fdVars, rVars, fmtVars, dlgVars>>
    \/ HandleSubmit /\ UNCHANGED <<fitVars, wtVars, fdVars, rVars, fmtVars, dlgVars>>
    \/ BroadcasterMissing /\ UNCHANGED <<fitVars, wtVars, fdVars, rVars, fmtVars, dlgVars>>
    \/ FormFetchResolves /\ UNCHANGED <<fitVars, wtVars, fdVars, rVars, fmtVars, dlgVars>>
    \/ FetchRejects /\ UNCHANGED <<fitVars, wtVars, fdVars, rVars, fmtVars, dlgVars>>
    \/ HandleReset /\ UNCHANGED <<fitVars, wtVars, fdVars, rVars, fmtVars, dlgVars>>
InitForm == FitIdle /\ WtIdle /\ FdIdle /\ RenderIdle /\ AppInit /\ FormatInit /\ DialogInit
SpecForm == InitForm /\ [][FormNext]_vars

\* the App of part_005 from a fetch in flight: the events arrive, the
\* preview lists them, Share Schedule renders them
ShareNext ==
    \/ ShareFetchResolves /\ UNCHANGED <<fitVars, wtVars, fdVars, rVars, fmtVars, dlgVars>>
    \/ ShareSchedule /\ UNCHANGED <<fitVars, wtVars, fdVars, fmtVars, dlgVars>>
    \/ ImageLoaded /\ UNCHANGED <<fitVars, wtVars, fdVars, appVars, fmtVars, dlgVars>>
    \/ ImageDrawThrows /\ UNCHANGED <<fitVars, wtVars, fdVars, appVars, fmtVars, dlgVars>>
    \/ ImageError /\ UNCHANGED <<fitVars, wtVars, fdVars, appVars, fmtVars, dlgVars>>
    \/ ShareReturns /\ UNCHANGED <<fitVars, wtVars, fdVars, fmtVars, dlgVars>>
InitShare == FitIdle /\ WtIdle /\ FdIdle /\ RenderIdle /\ AppFetching /\ FormatInit /\ DialogInit
SpecShare == InitShare /\ [][ShareNext]_vars

\* the same with the Reset button, which can be clicked while a render awaits
\* its images
OverlapNext ==
    \/ ShareFetchResolves /\ UNCHANGED <<fitVars, wtVars, fdVars, rVars, fmtVars, dlgVars>>
    \/ ShareSchedule /\ UNCHANGED <<fitVars, wtVars, fdVars, fmtVars, dlgVars>>
    \/ ImageLoaded /\ UNCHANGED <<fitVars, wtVars, fdVars, appVars, fmtVars, dlgVars>>
    \/ ImageDrawThrows /\ UNCHANGED <<fitVars, wtVars, fdVars, appVars, fmtVars, dlgVars>>
    \/ ImageError /\ UNCHANGED <<fitVars, wtVars, fdVars, appVars, fmtVars, dlgVars>>
    \/ ShareReturns /\ UNCHANGED <<fitVars, wtVars, fdVars, fmtVars, dlgVars>>
    \/ HandleReset /\ UNCHANGED <<fitVars, wtVars, fdVars, rVars, fmtVars, dlgVars>>
InitOverlap == FitIdle /\ WtIdle /\ FdIdle /\ RenderIdle /\ AppFetching /\ FormatInit /\ DialogInit
SpecOverlap == InitOverlap /\ [][OverlapNext]_vars


\* the date format of the App: fetching, switching the format, saving a
\* custom schedule
FormatNext ==
    \/ FormatFetchStarts /\ UNCHANGED <<fitVars, wtVars, fdVars, rVars, appVars, dlgVars>>
    \/ FormatFetchResolves /\ UNCHANGED <<fitVars, wtVars, fdVars, rVars, appVars, dlgVars>>
    \/ ChangeDateFormat /\ UNCHANGED <<fitVars, wtVars, fdVars, rVars, appVars, dlgVars>>
    \/ SaveCustomSchedule /\ UNCHANGED <<fitVars, wtVars, fdVars, rVars, appVars, dlgVars>>
InitFormat == FitIdle /\ WtIdle /\ FdIdle /\ RenderIdle /\ AppIdle /\ FormatInit /\ DialogInit
SpecFormat == InitFormat /\ [][FormatNext]_vars

\* the custom-schedule dialog: adding, editing, cancelling, deleting
DialogNext ==
    \/ HandleAddEvent /\ UNCHANGED <<fitVars, wtVars, fdVars, rVars, appVars, fmtVars>>
    \/ HandleEditEvent /\ UNCHANGED <<fitVars, wtVars, fdVars, rVars, appVars, fmtVars>>
    \/ HandleCancelEdit /\ UNCHANGED <<fitVars, wtVars, fdVars, rVars, appVars, fmtVars>>
    \/ HandleDeleteEvent /\ UNCHANGED <<fitVars, wtVars, fdVars, rVars, appVars, fmtVars>>
InitDialog == FitIdle /\ WtIdle /\ FdIdle /\ RenderIdle /\ AppIdle /\ FormatInit /\ DialogInit
SpecDialog == InitDialog /\ [][DialogNext]_vars

(***************************************************************************)
(* Properties                                                              *)
(***************************************************************************)
Range(seq) == {seq[k] : k \in 1..Len(seq)}

\* C1: calculateFitScale(n) is max(0.95 - 0.06 (n - 1), 0.5) for every entry
\* count n, in hundredths: it is at least both arguments and equal to one of
\* them; it is 0.95 for n = 1, 0.59 for n = 7 and 0.5 for n = 100.
C1_FitScaleFormula ==
    fitPc = "done" =>
        /\ fitOutA >= 95 - 6 * (fitA - 1)
        /\ fitOutA >= 50
        /\ fitOutA \in {95 - 6 * (fitA - 1), 50}
        /\ (fitA = 1 => fitOutA = 95)
        /\ (fitA = 7 => fitOutA = 59)
        /\ (fitA = 100 => fitOutA = 50)

C1_Witness == fitPc = "done" /\ fitA = 100 /\ fitOutA = 50

\* C2: fitScale is non-increasing in the entry count: for entry counts
\* 1 <= a <= b, calculateFitScale(b) <= calculateFitScale(a).
C2_FitScaleNonIncreasing ==
    (fitPc = "done" /\ 1 <= fitA /\ fitA <= fitB) => fitOutB <= fitOutA

C2_Witness == fitPc = "done" /\ fitA < fitB /\ fitOutB < fitOutA

\* the size, in px at scale 1, that a drawing call scales by fitScale
BaseSize(what) ==
    CASE what = "title" -> 56
      [] what = "subtitle" -> 42
      [] what = "eventTitle" -> 44
      [] what \in {"category", "date", "duration"} -> 32
      [] what = "footer" -> 18
      [] what = "categoryImage" -> 182
      [] OTHER -> 0

\* C3: in every render whose entry count is at least 1, the fitScale lies in
\* [0.5, 0.95], and so does the scale of every text drawn and of every
\* category image drawn: its size is between 0.5 and 0.95 times its base size.
C3_FitScaleInRange ==
    (rPc \notin {"off", "idle"} /\ rEventCount >= 1) =>
        /\ rFitScale >= 50 /\ rFitScale <= 95
        /\ \A k \in 1..Len(rOps) :
              rOps[k].what \notin {"background", "avatar"} =>
                  /\ rOps[k].size = BaseSize(rOps[k].what) * rFitScale
                  /\ rOps[k].size >= BaseSize(rOps[k].what) * 50
                  /\ rOps[k].size <= BaseSize(rOps[k].what) * 95
        /\ \A k \in 1..Len(rOps) :
              rOps[k].what = "categoryImage" =>
                  /\ rOps[k].arg[1] >= 130 * 50
                  /\ rOps[k].arg[1] <= 130 * 95

C3_Witness ==
    /\ rPc = "resolved" /\ rEventCount = 9 /\ rFitScale = 50
    /\ \E k \in 1..Len(rOps) : rOps[k].what = "categoryImage"
    /\ \E k \in 1..Len(rOps) : rOps[k].what = "eventTitle"

HasNonSpace(text) == \E k \in 1..Len(text) : text[k] # SP

\* C4, as claimed: wrapText returns at least one line for every non-empty
\* input string, whatever characters it contains.
C4_NonEmptyInputHasLine ==
    (wtPc = "done" /\ wtText # <<>>) => Len(wtLines) >= 1

\* C4, amended: wrapText returns at least one line for every input string
\* that holds a character other than a space, and no line for a string of
\* spaces only.
C4_NonBlankInputHasLine ==
    wtPc = "done" =>
        /\ HasNonSpace(wtText) => Len(wtLines) >= 1
        /\ ~HasNonSpace(wtText) => Len(wtLines) = 0

C4_Witness ==
    /\ wtPc = "done" /\ HasNonSpace(wtText) /\ wtText[1] = SP
    /\ Len(wtText) = MaxTextLen /\ Len(wtLines) >= 2

IsWord(line) == line # <<>> /\ \A k \in 1..Len(line) : line[k] # SP

\* C5: each line wrapText returns measures at most maxWidth, or is exactly
\* one word of the text, unsplit, whose own width exceeds maxWidth.
C5_LinesFitOrSingleWord ==
    wtPc = "done" =>
        \A k \in 1..Len(wtLines) :
            \/ measureText([font |-> wtFont], wtLines[k]) <= wtMax
            \/ /\ IsWord(wtLines[k])
               /\ wtLines[k] \in Range(Split(wtText))

C5_Witness ==
    /\ wtPc = "done" /\ Len(wtLines) >= 2
    /\ \E k \in 1..Len(wtLines) : measureText([font |-> wtFont], wtLines[k]) > wtMax
    /\ \E k \in 1..Len(wtLines) :
          ~IsWord(wtLines[k]) /\ measureText([font |-> wtFont], wtLines[k]) = wtMax

\* C6: with end absent, formatStartEndDates returns startDisplay equal to
\* start and endDisplay null, for every start and pattern.
C6_AbsentEnd ==
    (fdPc = "done" /\ fdEnd = Null) =>
        fdOut = [startDisplay |-> fdStart, endDisplay |-> Null]

C6_Witness ==
    /\ fdPc = "done" /\ fdEnd = Null /\ fdStartC # NoInstant
    /\ fdOut.startDisplay = fdStart /\ fdOut.endDisplay = Null

\* C7, as claimed: for start and end rendered with one pattern (H:MM with
\* optional seconds and optional AM/PM) on the same calendar day, endDisplay
\* is only the time-of-day token of end.
C7_SameDayTimeOnly ==
    (/\ fdPc = "done" /\ fdStartC # NoInstant /\ fdEndC # NoInstant
     /\ fdStartC.day = fdEndC.day) =>
        /\ fdOut.startDisplay = fdStart
        /\ fdOut.endDisplay = FormatTime(fdEndC.hour, fdPattern)

\* C8: for start and end whose extracted date parts differ (so for every
\* start and end rendered with one pattern on different days), endDisplay is
\* the full end string and startDisplay is start, both unchanged.
C8_DifferentDaysUnchanged ==
    (fdPc = "done" /\ ~Falsy(fdEnd)) =>
        /\ extractDatePart(fdStart, fdPattern) # extractDatePart(fdEnd, fdPattern)
              => fdOut = [startDisplay |-> fdStart, endDisplay |-> fdEnd]
        /\ (fdStartC # NoInstant /\ fdEndC # NoInstant /\ fdStartC.day # fdEndC.day)
              => fdOut = [startDisplay |-> fdStart, endDisplay |-> fdEnd]

C8_Witness ==
    /\ fdPc = "done" /\ fdStartC # NoInstant /\ fdEndC # NoInstant
    /\ fdStartC.day # fdEndC.day /\ fdStartC.hour = fdEndC.hour
    /\ fdOut.endDisplay = fdEnd

\* a time-of-day token H:MM somewhere in str
HasTimeToken(str) == \E k \in 1..Len(str) : TimeEndAt(str, k) > 0

\* C9, as claimed: for start and end strings with no recognizable
\* time-of-day token, the original strings are returned unchanged (stated
\* for a present, non-empty end).
C9_MalformedUnchanged ==
    (fdPc = "done" /\ ~Falsy(fdEnd) /\ ~HasTimeToken(fdStart) /\ ~HasTimeToken(fdEnd)) =>
        fdOut = [startDisplay |-> fdStart, endDisplay |-> fdEnd]

\* C9, amended: for start and a non-empty end with no recognizable
\* time-of-day token, startDisplay is start; endDisplay is end when the two
\* strings differ, and when they are equal it is the last two
\* space-separated segments of end (end itself if it has at most two).
C9_MalformedBestEffort ==
    (fdPc = "done" /\ ~Falsy(fdEnd) /\ ~HasTimeToken(fdStart) /\ ~HasTimeToken(fdEnd)) =>
        /\ fdOut.startDisplay = fdStart
        /\ fdStart # fdEnd => fdOut.endDisplay = fdEnd
        /\ fdStart = fdEnd =>
              fdOut.endDisplay = Join(LastN(Split(fdEnd), 2))
        /\ (fdStart = fdEnd /\ Len(Split(fdEnd)) <= 2) => fdOut.endDisplay = fdEnd

C9_Witness ==
    /\ fdPc = "done" /\ ~HasTimeToken(fdStart) /\ fdStart = fdEnd
    /\ Len(Split(fdEnd)) = 3
    /\ fdOut.startDisplay = fdStart /\ fdOut.endDisplay # fdEnd

\* C10: if the 2D context cannot be obtained, the render rejects before any
\* drawing call or image load, and GenerateScheduleImage returns null, never
\* a data URL.
C10_NoContextNoImage ==
    (~rCtxOk /\ gPc \in {"await", "returned"}) =>
        /\ rPc = "rejected"
        /\ rOps = <<>>
        /\ rLoads = 0
        /\ gResult # "dataUrl"
        /\ (gPc = "returned" => gResult = "null")

C10_Witness ==
    /\ ~rCtxOk /\ gPc = "returned" /\ gResult = "null"
    /\ rProfile /\ \E k \in 1..Len(rEvents) : rEvents[k].categoryImage

\* the drawing calls of ops that paint text
TextOps(ops) == {ops[k] : k \in {j \in 1..Len(ops) : ops[j].op = "fillText"}}

\* C11: once the context is allocated the render is never rejected and an
\* image is returned whatever each image load does, and in the finished image
\* every text that was drawn is painted: each row's title, every metadata
\* line and the footer; only a failed image is missing.
C11_FailedImageOnlyUnpainted ==
    (rCtxOk /\ gPc # "idle") =>
        /\ rPc # "rejected"
        /\ (gPc = "returned" => gResult = "dataUrl")
        /\ (rPc = "resolved" =>
              /\ TextOps(rOps) \subseteq Range(rPainted)
              /\ \A i \in 1..Len(validEventsOf(rEvents)) :
                    \E o \in Range(rPainted) : o.what = "eventTitle" /\ o.row = i
              /\ \E o \in Range(rPainted) : o.what = "footer")

\* the step a drawing call belongs to
Rank(o) ==
    CASE o.what = "background" -> 0
      [] o.what = "avatar" -> 1
      [] o.what \in {"title", "subtitle"} -> 2
      [] o.what = "footer" -> 4
      [] OTHER -> 3

\* C12: the drawing calls come in the order background, avatar, header,
\* rows 1..n, footer; at most one image load is outstanding, and while the
\* load of the avatar or of row i is outstanding nothing of the header, of a
\* later row or of the footer has been drawn; the data URL is returned only
\* after the footer, with every load settled.
C12_StepsInOrder ==
    /\ rLoads - rSettled \in {0, 1}
    /\ (rLoads - rSettled = 1) <=> (rPc \in {"avatar", "row"})
    /\ \A k \in 1..(Len(rOps) - 1) :
          /\ Rank(rOps[k]) <= Rank(rOps[k + 1])
          /\ (Rank(rOps[k]) = 3 /\ Rank(rOps[k + 1]) = 3 =>
                 rOps[k].row <= rOps[k + 1].row)
    /\ (rPc = "avatar" => rOps = backgroundOps)
    /\ (rPc = "row" => \A o \in Range(rOps) : o.row <= rIdx /\ o.what # "footer")
    /\ ((\E o \in Range(rOps) : o.what = "footer") => rPc = "resolved")
    /\ (gResult = "dataUrl" =>
          /\ rPc = "resolved"
          /\ rLoads = rSettled
          /\ rOps[1].what = "background"
          /\ rOps[Len(rOps)].what = "footer"
          /\ \A i \in 1..Len(validEventsOf(rEvents)) :
                \E o \in Range(rOps) : o.what = "eventTitle" /\ o.row = i)

C12_Witness ==
    /\ gResult = "dataUrl"
    /\ rSettled = 3
    /\ Len(validEventsOf(rEvents)) = 2

\* the positions in rOps of the calls of row i that draw what
RowOps(i, what) == {k \in 1..Len(rOps) : rOps[k].row = i /\ rOps[k].what = what}

\* the rows that rOps draws
Rows == {rOps[k].row : k \in 1..Len(rOps)} \ {0}

\* row i is drawn from the event e: as many title lines, and its start on
\* the date line
RowShows(i, e) ==
    /\ Cardinality(RowOps(i, "eventTitle")) = e.lines
    /\ \A k \in RowOps(i, "date") : rOps[k].arg[1] = e.start

\* C13: the rows of a finished render are the entries with a summary in
\* their input order, row i drawn from the i-th of them whatever the starts
\* are, and a row with a larger index is lower on the canvas.
C13_RowsInInputOrder ==
    rPc = "resolved" =>
        LET T == Truthy(rEvents)
            n == Min(7, Len(T))
        IN  /\ Rows = 1..n
            /\ \A i \in 1..n : RowShows(i, T[i])
            /\ \A k \in 1..Len(rOps) :
                  rOps[k].what = "eventTitle" =>
                      \A l \in 1..Len(rOps) :
                          (/\ rOps[l].what = "eventTitle"
                           /\ rOps[k].row < rOps[l].row) => rOps[k].y < rOps[l].y

C13_Witness ==
    /\ rPc = "resolved"
    /\ Len(rEvents) = 2
    /\ rEvents[1].summary /\ rEvents[2].summary
    /\ rEvents[1].start > rEvents[2].start
    /\ Rows = {1, 2}

\* the top of the first row
HasFirstRow == RowOps(1, "eventTitle") # {}
FirstRowTop == rOps[CHOOSE k \in RowOps(1, "eventTitle") : rOps[k].arg = <<1>>].y

C16_AtMostSevenRows ==
    /\ Len(aPreview) <= 7
    /\ Len(aPreview) = Min(7, Len(aEvents))
    /\ \A i \in 1..Len(aPreview) : aPreview[i] = aEvents[i]
    /\ (rPc = "resolved" =>
          /\ Cardinality(Rows) <= 7
          /\ Rows = 1..Min(7, Len(Truthy(rEvents)))
          /\ \A i \in Rows : RowShows(i, Truthy(rEvents)[i]) /\ RowShows(i, aPreview[i]))

C16_Witness ==
    /\ rPc = "resolved"
    /\ Len(aEvents) = 8
    /\ aEvents[8] # aEvents[7]
    /\ Rows = 1..7
    /\ Len(aPreview) = 7

\* a render of 7 entries none of which has a category image, its context
\* allocated
SevenWithoutImage ==
    /\ gPc # "off"
    /\ rCtxOk
    /\ Len(rEvents) = 7
    /\ Imaged(rEvents) = 0

\* C17 as stated: 7 entries without a category image are rendered without
\* any image load and give an image.
C17_NoImageLoad ==
    SevenWithoutImage =>
        /\ rLoads = 0
        /\ (gPc = "returned" => gResult = "dataUrl")

\* C17: 7 entries without a category image are rendered with no category
\* image load: the avatar load is the only one, started exactly when a
\* profile image is given; without one the render finishes with no load at
\* all; the image is returned in both cases.
C17_OnlyAvatarLoad ==
    SevenWithoutImage =>
        /\ rLoads = (IF rProfile THEN 1 ELSE 0)
        /\ \A o \in Range(rOps) : o.what # "categoryImage"
        /\ (~rProfile => rPc = "resolved" /\ rSettled = 0)
        /\ (gPc = "returned" => gResult = "dataUrl")

C17_Witness ==
    /\ SevenWithoutImage
    /\ rProfile
    /\ rLoads = 1
    /\ gResult = "dataUrl"

\* C18: the stored Twitch username holds only letters, digits, underscores
\* and spaces, and neither starts nor ends with a space.
C18_UsernameSanitized ==
    /\ \A k \in 1..Len(aUsername) : aUsername[k] \in UsernameChars
    /\ (aUsername # <<>> => aUsername[1] # SP /\ aUsername[Len(aUsername)] # SP)

\* C19: a submit with no username and no calendar URL sets an error and
\* leaves the events, the preview, the loading flag and the fetch position
\* as they were: no fetch is started.
C19_EmptySubmitNoFetch ==
    [][(HandleSubmit /\ aUsername = <<>> /\ aWebcal = <<>>) =>
          /\ aError' # ""
          /\ aPc' = aPc
          /\ aLoading' = aLoading
          /\ aEvents' = aEvents
          /\ aPreview' = aPreview]_vars

C19_Witness ==
    /\ aError \in {"Enter Twitch username", "Enter Twitch username or webcal URL"}
    /\ aUsername = <<>>
    /\ aWebcal = <<>>
    /\ aEvents # <<>>
    /\ aPc = "idle"

\* C20: the total height from which the starting Y is computed is the sum
\* of the heights by which currentY is advanced over the rows of a finished
\* render.
C20_TotalEqualsAdvance ==
    rPc = "resolved" =>
        rY - startingY(validEventsOf(rEvents), rFitScale)
            = totalEventHeight(validEventsOf(rEvents), rFitScale)

\* the top of row i, and the top of what follows it: the next row, or the
\* cursor after the last row
TopOf(i) == rOps[CHOOSE k \in RowOps(i, "eventTitle") : rOps[k].arg = <<1>>].y
NextTop(i) == IF i + 1 \in Rows THEN TopOf(i + 1) ELSE rY

\* the height of what a call paints, in 1/2000 px: the font size of a text
\* drawn from its top, the height of an image
Extent(o) == o.size * 20

\* C21: in a finished render the tops of the rows strictly increase and all
\* that is drawn for row i (title lines, category, date and duration lines,
\* the image) lies from the top of row i to the top of what follows, so the
\* rows do not overlap.
C21_RowsDoNotOverlap ==
    rPc = "resolved" =>
        \A i \in Rows :
            LET top == TopOf(i)
                next == NextTop(i)
            IN  /\ top < next
                /\ \A k \in 1..Len(rOps) :
                      rOps[k].row = i =>
                          /\ top <= rOps[k].y
                          /\ rOps[k].y + Extent(rOps[k]) <= next

C21_Witness ==
    /\ rPc = "resolved"
    /\ Rows = {1, 2}
    /\ RowOps(1, "categoryImage") # {}
    /\ RowOps(1, "duration") # {}
    /\ RowOps(2, "eventTitle") # {}

\* the image of the last settled drawImage is not on the canvas
NotDrawn(image) ==
    ~ \E k \in 1..Len(rOps) :
          /\ rOps[k].op = "drawImage"
          /\ rOps[k].what = image.what
          /\ rOps[k].row = image.row

\* C22 as stated: when the load of an image fails, the promise of drawImage
\* resolves and nothing is drawn for the image.
C22_LoadFailureResolves ==
    rImage.outcome = "loadError" =>
        /\ rImage.promise = "resolved"
        /\ NotDrawn(rImage)

\* C22: when the load of an image fails, the promise of drawImage is
\* rejected and nothing is drawn for the image; the render catches the
\* rejection, is not rejected itself and returns its image.
C22_LoadFailureRejectedAndCaught ==
    rImage.outcome = "loadError" =>
        /\ rImage.promise = "rejected"
        /\ NotDrawn(rImage)
        /\ rPc # "rejected"
        /\ (gPc = "returned" => gResult = "dataUrl")

C22_Witness ==
    /\ rImage.outcome = "loadError"
    /\ rImage.what = "categoryImage"
    /\ gResult = "dataUrl"

\* C24: every row has exactly one date line: start and end when showEndDate
\* is set and the event has an end, the start alone otherwise.
C24_OneDateLine ==
    \A i \in Rows :
        /\ Cardinality(RowOps(i, "date")) = 1
        /\ \A k \in RowOps(i, "date") :
              Len(rOps[k].arg) = (IF rShowEnd /\ validEventsOf(rEvents)[i].end THEN 2 ELSE 1)

\* C30: between the steps of a render the state stack of the context is at
\* the depth it had before the render: every save of a settled drawImage has
\* been restored.
C30_StackBalanced == rDepth = 0

\* the subtitles on the canvas
Subtitles == {k \in 1..Len(rOps) : rOps[k].what = "subtitle"}

\* C23: once the header is drawn, there is a subtitle exactly when more than
\* one entry is rendered, and it spans from the start of the first rendered
\* entry to the start of the last rendered entry.
C23_SubtitleSpansRendered ==
    LET rendered == validEventsOf(rEvents)
    IN  (\E k \in 1..Len(rOps) : rOps[k].what = "title") =>
            /\ Subtitles # {} <=> Len(rendered) > 1
            /\ \A k \in Subtitles :
                  rOps[k].arg = <<rendered[1].start, rendered[Len(rendered)].start>>

\* C25: on every render the application issues, eventCount is the length of
\* the events passed in the call, and the number of rows painted by the
\* finished render.
C25_CountIsLength ==
    gPc # "off" =>
        /\ rEventCount = Len(rEvents)
        /\ (rPc = "resolved" => Cardinality(Rows) = rEventCount)

\* C28: when no fetchAndParseCalendar is running, loading is false: every
\* fetch that set loading has cleared it on the path by which it ended.
C28_LoadingCleared == aPc = "idle" => ~aLoading

\* C26: the image the share sheet presents is the image of the events the
\* App holds: a render started before a Reset does not present its image
\* after the Reset.
C26_NoStaleImage == aShareSheetOpen => aImage = aEvents

\* C27: the start and the end of every event of the App are formatted with
\* the same pattern, the dateFormat selected.
C27_StartAndEndInDateFormat ==
    \A i \in 1..Len(aPatterns) :
        /\ aPatterns[i].start = aDateFormat
        /\ aPatterns[i].end \in {aDateFormat, "null"}

\* C29: while the dialog edits, editingEventIndex is an index of its events
\* and the event at it is the event loaded into the form.
C29_EditingIndexValid ==
    dEditing # 0 =>
        /\ dEditing <= Len(dEvents)
        /\ dEvents[dEditing] = dLoaded

====
